---------------------------- MODULE Spec2Model ----------------------------
(***************************************************************************)
(* Conway's Game of Life with boundary tracking                           *)
(* (src/Entertainment/ConwaysGameOfLife.ipynb, the notebook's code cell).  *)
(*                                                                         *)
(* A cell is a pair <<x, y>>: coord[1] is the code's coord[0] (the         *)
(* column) and coord[2] its coord[1] (the row).  GRID_WIDTH and            *)
(* GRID_HEIGHT are module-level constants of the notebook (100 x 100 as    *)
(* shipped); here they are chosen once by Init and never change, so that   *)
(* the functions are checked on every small torus.                         *)
(***************************************************************************)
EXTENDS Integers, FiniteSets, Sequences, TLC

VARIABLES
    GRID_WIDTH,    \* the notebook's GRID_WIDTH, fixed by Init
    GRID_HEIGHT,   \* the notebook's GRID_HEIGHT, fixed by Init
    alive_set,     \* main's alive_set (or the alive set handed to a core function)
    boundary_set,  \* main's boundary_set
    pause,         \* main's pause flag
    run,           \* main's run flag
    pc,            \* where main is: "menu", "loop", "crashed", "quit"; in the function
                   \* specifications "core" before the call and "returned" after it
    clicks,        \* mouse clicks handled so far (bounded by MaxClicks)
    space_presses, \* SPACE key presses handled so far, modulo 2
    call,          \* the core function applied last and its arguments
    ret            \* what that call returned

vars == <<GRID_WIDTH, GRID_HEIGHT, alive_set, boundary_set, pause, run, pc, clicks,
          space_presses, call, ret>>

(***************************************************************************)
(* Bounds of the model.                                                    *)
(***************************************************************************)
\* The driver runs on every W x H torus with W * H <= MaxDriverCells.
MaxDriverCells == 9
\* The driver handles at most MaxClicks mouse clicks in a run.
MaxClicks == 1
\* The core functions are applied on every W x H torus with W, H <= MaxDim
\* (and, where every alive set is enumerated, W * H <= MaxCells).
MaxDim == 5
MaxCells == 12
\* Raw coordinates handed to PBC and contour range over -MaxRaw .. MaxRaw.
MaxRaw == 7
\* The named patterns live on every W x H torus with 7 <= W, H <= MaxPatDim.
MaxPatDim == 8
\* Ticks applied to a named pattern.
MaxTicks == 3

\* All cells of the grid: [0, GRID_WIDTH) x [0, GRID_HEIGHT).
Grid == (0 .. GRID_WIDTH - 1) \X (0 .. GRID_HEIGHT - 1)

(***************************************************************************)
(* The core functions.                                                     *)
(***************************************************************************)
\* The remainder that truncates towards zero (C's %), which keeps the sign of a.
TruncRem(a, n) == IF a >= 0 THEN a % n ELSE -((-a) % n)

\* PBC written with the truncating remainder.
PBC_truncating(coord_0, coord_1) ==
    LET c_0 == IF coord_0 < 0 \/ coord_0 >= GRID_WIDTH
               THEN TruncRem(coord_0, GRID_WIDTH) ELSE coord_0
        c_1 == IF coord_1 < 0 \/ coord_1 >= GRID_HEIGHT
               THEN TruncRem(coord_1, GRID_HEIGHT) ELSE coord_1
    IN  <<c_0, c_1>>

\* Python's % with a positive modulus is the floored modulo, as is TLA+'s.
PBC(coord_0, coord_1) ==
    LET c_0 == IF coord_0 < 0 \/ coord_0 >= GRID_WIDTH
               THEN coord_0 % GRID_WIDTH ELSE coord_0
        c_1 == IF coord_1 < 0 \/ coord_1 >= GRID_HEIGHT
               THEN coord_1 % GRID_HEIGHT ELSE coord_1
    IN  <<c_0, c_1>>

\* contour with one offset mistyped as (0, 0): the cell itself is added.
contour_with_centre(coord) ==
    { PBC(coord[1] - 1, coord[2] + 1),
      PBC(coord[1],     coord[2] + 1),
      PBC(coord[1] + 1, coord[2] + 1),
      PBC(coord[1] + 1, coord[2]),
      PBC(coord[1] + 1, coord[2] - 1),
      PBC(coord[1],     coord[2] - 1),
      PBC(coord[1] - 1, coord[2] - 1),
      PBC(coord[1],     coord[2]) }

\* contour with one offset written twice: (-1, 0) is missing, (+1, 0) repeated.
contour_duplicate(coord) ==
    { PBC(coord[1] - 1, coord[2] + 1),
      PBC(coord[1],     coord[2] + 1),
      PBC(coord[1] + 1, coord[2] + 1),
      PBC(coord[1] + 1, coord[2]),
      PBC(coord[1] + 1, coord[2] - 1),
      PBC(coord[1],     coord[2] - 1),
      PBC(coord[1] - 1, coord[2] - 1),
      PBC(coord[1] + 1, coord[2]) }

contour(coord) ==
    { PBC(coord[1] - 1, coord[2] + 1),
      PBC(coord[1],     coord[2] + 1),
      PBC(coord[1] + 1, coord[2] + 1),
      PBC(coord[1] + 1, coord[2]),
      PBC(coord[1] + 1, coord[2] - 1),
      PBC(coord[1],     coord[2] - 1),
      PBC(coord[1] - 1, coord[2] - 1),
      PBC(coord[1] - 1, coord[2]) }

\* boundary without the final `boundary_set -= alive_set`.
boundary_keeps_alive(alive) ==
    UNION { contour(cell_coord) : cell_coord \in alive }

boundary(alive) ==
    (UNION { contour(cell_coord) : cell_coord \in alive }) \ alive

\* contour_alive_sum that also counts the cell itself when it is alive.
contour_alive_sum_with_self(coord, alive) ==
    Cardinality({ c \in contour(coord) \cup {coord} : c \in alive })

contour_alive_sum(coord, alive) ==
    Cardinality({ c \in contour(coord) : c \in alive })

\* evolution whose survival test has no upper limit (`2 <= sum`).
evolution_no_overcrowding(alive, bound) ==
    { cell \in alive : 2 <= contour_alive_sum(cell, alive) }
    \cup { void \in bound : contour_alive_sum(void, alive) = 3 }

\* evolution without its second loop: nothing is ever born.
evolution_no_birth(alive, bound) ==
    { cell \in alive : /\ 2 <= contour_alive_sum(cell, alive)
                       /\ contour_alive_sum(cell, alive) <= 3 }

\* evolution whose birth test is `<= 3` instead of `== 3`.
evolution_birth_upto3(alive, bound) ==
    { cell \in alive : /\ 2 <= contour_alive_sum(cell, alive)
                       /\ contour_alive_sum(cell, alive) <= 3 }
    \cup { void \in bound : contour_alive_sum(void, alive) <= 3 }

\* evolution whose survival test has no lower limit (`sum <= 3`).
evolution_no_underpopulation(alive, bound) ==
    { cell \in alive : contour_alive_sum(cell, alive) <= 3 }
    \cup { void \in bound : contour_alive_sum(void, alive) = 3 }

\* evolution whose second loop discards a boundary cell that fails the birth
\* test (`else: alive_set_next.discard(void)`).
evolution_discards(alive, bound) ==
    ({ cell \in alive : /\ 2 <= contour_alive_sum(cell, alive)
                        /\ contour_alive_sum(cell, alive) <= 3 }
       \ { void \in bound : contour_alive_sum(void, alive) # 3 })
    \cup { void \in bound : contour_alive_sum(void, alive) = 3 }

evolution(alive, bound) ==
    { cell \in alive : /\ 2 <= contour_alive_sum(cell, alive)
                       /\ contour_alive_sum(cell, alive) <= 3 }
    \cup { void \in bound : contour_alive_sum(void, alive) = 3 }

(***************************************************************************)
(* The starting configurations.                                            *)
(***************************************************************************)
\* random_config() can return any subset of the grid.
random_config == SUBSET Grid

pulsars ==
    LET c0 == GRID_WIDTH \div 2
        c1 == GRID_HEIGHT \div 2
    IN {
    <<c0, c1-2>>, <<c0, c1-3>>, <<c0, c1-4>>, <<c0, c1+3>>, <<c0, c1+4>>, <<c0, c1+5>>,
    <<c0+1, c1-1>>, <<c0+1, c1-2>>, <<c0+1, c1+2>>, <<c0+1, c1+3>>, <<c0+2, c1-1>>,
    <<c0+2, c1+2>>, <<c0+3, c1-1>>, <<c0+3, c1+2>>, <<c0-3, c1-2>>, <<c0-3, c1-3>>,
    <<c0-3, c1-4>>, <<c0-3, c1+3>>, <<c0-3, c1+4>>, <<c0-3, c1+5>>, <<c0-4, c1-1>>,
    <<c0-4, c1-2>>, <<c0-4, c1+2>>, <<c0-4, c1+3>>, <<c0-5, c1-1>>, <<c0-5, c1+2>>,
    <<c0-6, c1-1>>, <<c0-6, c1+2>>, <<c0-9, c1-1>>, <<c0-9, c1-2>>, <<c0-9, c1-3>>,
    <<c0-9, c1+3>>, <<c0-9, c1+4>>, <<c0-9, c1+5>>, <<c0-9, c1-1>>, <<c0-9, c1-2>>,
    <<c0-9, c1-3>>, <<c0-9, c1+5>>, <<c0-9, c1+3>>, <<c0-9, c1+4>>, <<c0-14, c1-1>>,
    <<c0-14, c1-2>>, <<c0-14, c1-3>>, <<c0-14, c1+5>>, <<c0-14, c1+3>>, <<c0-14, c1+4>>,
    <<c0-16, c1-1>>, <<c0-16, c1-2>>, <<c0-16, c1-3>>, <<c0-16, c1+5>>, <<c0-16, c1+3>>,
    <<c0-16, c1+4>>, <<c0-21, c1-1>>, <<c0-21, c1-2>>, <<c0-21, c1-3>>, <<c0-21, c1+5>>,
    <<c0-21, c1+3>>, <<c0-21, c1+4>>, <<c0-11, c1>>, <<c0-12, c1>>, <<c0-13, c1>>,
    <<c0-17, c1>>, <<c0-18, c1>>, <<c0-19, c1>>, <<c0-11, c1+2>>, <<c0-12, c1+2>>,
    <<c0-13, c1+2>>, <<c0-17, c1+2>>, <<c0-18, c1+2>>, <<c0-19, c1+2>>, <<c0-11, c1+7>>,
    <<c0-12, c1+7>>, <<c0-13, c1+7>>, <<c0-17, c1+7>>, <<c0-18, c1+7>>, <<c0-19, c1+7>>,
    <<c0-11, c1-5>>, <<c0-12, c1-5>>, <<c0-13, c1-5>>, <<c0-17, c1-5>>, <<c0-18, c1-5>>,
    <<c0-19, c1-5>>, <<c0+6, c1-1>>, <<c0+7, c1-1>>, <<c0+8, c1-1>>, <<c0+9, c1-1>>,
    <<c0+10, c1-1>>, <<c0+16, c1-1>>, <<c0+17, c1-1>>, <<c0+18, c1-1>>, <<c0+19, c1-1>>,
    <<c0+20, c1-1>>, <<c0+6, c1+3>>, <<c0+7, c1+3>>, <<c0+8, c1+3>>, <<c0+9, c1+3>>,
    <<c0+10, c1+3>>, <<c0+16, c1+3>>, <<c0+17, c1+3>>, <<c0+18, c1+3>>, <<c0+19, c1+3>>,
    <<c0+20, c1+3>>, <<c0+11, c1-6>>, <<c0+11, c1-5>>, <<c0+11, c1-4>>, <<c0+11, c1-3>>,
    <<c0+11, c1-2>>, <<c0+11, c1+4>>, <<c0+11, c1+5>>, <<c0+11, c1+6>>, <<c0+11, c1+7>>,
    <<c0+11, c1+8>>, <<c0+15, c1-6>>, <<c0+15, c1-5>>, <<c0+15, c1-4>>, <<c0+15, c1-3>>,
    <<c0+15, c1-2>>, <<c0+15, c1+4>>, <<c0+15, c1+5>>, <<c0+15, c1+6>>, <<c0+15, c1+7>>,
    <<c0+15, c1+8>>, <<c0+9, c1-2>>, <<c0+9, c1+4>>, <<c0+10, c1-3>>, <<c0+10, c1+5>>,
    <<c0+17, c1-2>>, <<c0+17, c1+4>>, <<c0+16, c1-3>>, <<c0+16, c1+5>> }

gosper_glider_gun ==
    LET c0 == GRID_WIDTH \div 2
        c1 == GRID_HEIGHT \div 2
    IN {
    <<c0, c1>>, <<c0, c1-1>>, <<c0, c1-2>>, <<c0+1, c1>>, <<c0+1, c1-1>>, <<c0+1, c1-2>>,
    <<c0+2, c1-3>>, <<c0+2, c1+1>>, <<c0+4, c1-3>>, <<c0+4, c1+1>>, <<c0+4, c1-4>>,
    <<c0+4, c1+2>>, <<c0+14, c1-1>>, <<c0+14, c1-2>>, <<c0+15, c1-1>>, <<c0+15, c1-2>>,
    <<c0-3, c1+1>>, <<c0-4, c1+1>>, <<c0-4, c1>>, <<c0-4, c1+2>>, <<c0-5, c1-1>>,
    <<c0-5, c1+3>>, <<c0-6, c1+1>>, <<c0-7, c1-2>>, <<c0-7, c1+4>>, <<c0-8, c1-2>>,
    <<c0-8, c1+4>>, <<c0-9, c1-1>>, <<c0-9, c1+3>>, <<c0-10, c1>>, <<c0-10, c1+1>>,
    <<c0-10, c1+2>>, <<c0-19, c1>>, <<c0-20, c1>>, <<c0-19, c1+1>>, <<c0-20, c1+1>> }

(***************************************************************************)
(* main: the start-up menu and the event loop.                             *)
(***************************************************************************)
\* What the user may type at the menu prompt.
Selections == {"1", "2", "3", "4", ""}

DriverDims == { d \in (1 .. MaxDriverCells) \X (1 .. MaxDriverCells) :
                  d[1] * d[2] <= MaxDriverCells }

\* Before main runs: alive_set, boundary_set, pause and run are not bound yet
\* (the values below are placeholders until pc leaves "menu").
Init ==
    /\ \E d \in DriverDims : GRID_WIDTH = d[1] /\ GRID_HEIGHT = d[2]
    /\ alive_set = {}
    /\ boundary_set = {}
    /\ pause = TRUE
    /\ run = TRUE
    /\ pc = "menu"
    /\ clicks = 0
    /\ space_presses = 0
    /\ call = [op |-> "main"]
    /\ ret = {}

\* Lines 156-177 with a selection the menu knows.
StartValid ==
    /\ pc = "menu"
    /\ \E starting_conf \in Selections \cap {"1", "2", "3"} :
         \E conf \in (IF starting_conf = "1" THEN random_config
                      ELSE IF starting_conf = "2" THEN {pulsars}
                      ELSE {gosper_glider_gun}) :
            /\ alive_set' = conf
            /\ boundary_set' = boundary(conf)
    /\ run' = TRUE
    /\ pause' = TRUE
    /\ pc' = "loop"
    /\ UNCHANGED <<GRID_WIDTH, GRID_HEIGHT, clicks, call, ret,
                   space_presses>>

\* Lines 156-164 with any other selection: no branch binds alive_set, and
\* boundary(alive_set) raises UnboundLocalError.
StartInvalid ==
    /\ pc = "menu"
    /\ \E starting_conf \in Selections \ {"1", "2", "3"} : pc' = "crashed"
    /\ UNCHANGED <<GRID_WIDTH, GRID_HEIGHT, alive_set, boundary_set, pause, run,
                   clicks, call, ret,
                   space_presses>>

\* pygame.QUIT: run = False, break out of the for loop, then `if not run: break`.
HandleQuit ==
    /\ pc = "loop"
    /\ run' = FALSE
    /\ pc' = "quit"
    /\ UNCHANGED <<GRID_WIDTH, GRID_HEIGHT, alive_set, boundary_set, pause,
                   clicks, call, ret,
                   space_presses>>

\* pygame.MOUSEBUTTONDOWN: the clicked cell (a pixel of the window divided by
\* CELL_SIZE, so a cell of the grid) is toggled in alive_set; boundary_set is
\* not touched.
HandleMouse ==
    /\ pc = "loop"
    /\ clicks < MaxClicks
    /\ \E coord_click \in Grid :
         alive_set' = IF coord_click \in alive_set
                      THEN alive_set \ {coord_click}
                      ELSE alive_set \cup {coord_click}
    /\ clicks' = clicks + 1
    /\ UNCHANGED <<GRID_WIDTH, GRID_HEIGHT, boundary_set, pause, run, pc, call, ret,
                   space_presses>>

\* pygame.KEYDOWN with K_SPACE.
HandleSpace ==
    /\ pc = "loop"
    /\ pause' = ~pause
    /\ space_presses' = 1 - space_presses
    /\ UNCHANGED <<GRID_WIDTH, GRID_HEIGHT, alive_set, boundary_set, run, pc,
                   clicks, call, ret>>

\* pygame.KEYDOWN with another key, or an event of another type: nothing.
HandleOther ==
    /\ pc = "loop"
    /\ UNCHANGED vars

\* The events are handled and pause is set: `continue`.
IterPaused ==
    /\ pc = "loop"
    /\ pause
    /\ UNCHANGED vars

\* Lines 214-215: one tick.
Tick ==
    /\ alive_set' = evolution(alive_set, boundary_set)
    /\ boundary_set' = boundary(alive_set')

\* The tick taken whether or not pause is set (`if pause: continue` missing).
IterTick_ignores_pause ==
    /\ pc = "loop"
    /\ Tick
    /\ UNCHANGED <<GRID_WIDTH, GRID_HEIGHT, pause, run, pc, clicks,
                   space_presses, call, ret>>

\* The events are handled and pause is not set: the tick.
IterTick ==
    /\ pc = "loop"
    /\ ~pause
    /\ Tick
    /\ UNCHANGED <<GRID_WIDTH, GRID_HEIGHT, pause, run, pc, clicks, call, ret,
                   space_presses>>

Next ==
    \/ StartValid
    \/ StartInvalid
    \/ HandleQuit
    \/ HandleMouse
    \/ HandleSpace
    \/ HandleOther
    \/ IterPaused
    \/ IterTick

Spec == Init /\ [][Next]_vars

(***************************************************************************)
(* The coordinate functions on their own: PBC and contour applied to raw   *)
(* coordinates on every torus up to MaxDim x MaxDim.                       *)
(***************************************************************************)
RawCoords == (-MaxRaw) .. MaxRaw

CoordInit ==
    /\ GRID_WIDTH \in 1 .. MaxDim
    /\ GRID_HEIGHT \in 1 .. MaxDim
    /\ alive_set = {}
    /\ boundary_set = {}
    /\ pause = TRUE
    /\ run = TRUE
    /\ pc = "core"
    /\ clicks = 0
    /\ space_presses = 0
    /\ call = [op |-> "none"]
    /\ ret = {}

CallPBC ==
    /\ pc = "core"
    /\ \E coord_0 \in RawCoords, coord_1 \in RawCoords :
         /\ call' = [op |-> "PBC", coord_0 |-> coord_0, coord_1 |-> coord_1]
         /\ ret' = PBC(coord_0, coord_1)
    /\ pc' = "returned"
    /\ UNCHANGED <<GRID_WIDTH, GRID_HEIGHT, alive_set, boundary_set, pause, run,
                   clicks,
                   space_presses>>

CallContour ==
    /\ pc = "core"
    /\ \E coord \in RawCoords \X RawCoords :
         /\ call' = [op |-> "contour", coord |-> coord]
         /\ ret' = contour(coord)
    /\ pc' = "returned"
    /\ UNCHANGED <<GRID_WIDTH, GRID_HEIGHT, alive_set, boundary_set, pause, run,
                   clicks,
                   space_presses>>

CoordNext ==
    \/ CallPBC
    \/ CallContour

SpecCoord == CoordInit /\ [][CoordNext]_vars

(***************************************************************************)
(* The set functions on their own: boundary and evolution applied to an    *)
(* alive set of in-range cells, evolution with the boundary of that set or *)
(* with a superset of it.                                                  *)
(* On the small tori (W, H <= MaxDim, W * H <= MaxCells) the alive set is  *)
(* any subset of the grid; on the larger ones (MaxDim < W, H <= MaxDim+2)  *)
(* it is any subset of a 3 x 3 window laid across the corner of the grid,  *)
(* so that every neighbourhood of the window's centre occurs and cells far *)
(* from every alive cell exist; on the 20 x 20 torus it is empty or one    *)
(* cell.                                                                   *)
(***************************************************************************)
SmallDims == { d \in (1 .. MaxDim) \X (1 .. MaxDim) : d[1] * d[2] <= MaxCells }

BigDims == (MaxDim + 1 .. MaxDim + 2) \X (MaxDim + 1 .. MaxDim + 2)

Translate(cells, d) == { PBC(c[1] + d[1], c[2] + d[2]) : c \in cells }

Window == (0 .. 2) \X (0 .. 2)

\* The torus of the single-cell case.
CellDims == { <<20, 20>> }

AliveInputs ==
    IF <<GRID_WIDTH, GRID_HEIGHT>> \in SmallDims
    THEN SUBSET Grid
    ELSE IF <<GRID_WIDTH, GRID_HEIGHT>> \in BigDims
    THEN { Translate(S, <<GRID_WIDTH - 1, GRID_HEIGHT - 1>>) : S \in SUBSET Window }
    ELSE { {} } \cup { {c} : c \in Grid }

\* The boundary sets handed to evolution with an alive set: its boundary, and
\* its boundary with the alive cells, with every other dead cell, with both.
BoundaryInputs(alive) ==
    { boundary(alive) \cup extra : extra \in { {}, alive, Grid \ alive, Grid } }

SetsInit ==
    /\ \E d \in SmallDims \cup BigDims \cup CellDims :
         GRID_WIDTH = d[1] /\ GRID_HEIGHT = d[2]
    /\ alive_set \in AliveInputs
    /\ boundary_set \in BoundaryInputs(alive_set)
    /\ pause = TRUE
    /\ run = TRUE
    /\ pc = "core"
    /\ clicks = 0
    /\ space_presses = 0
    /\ call = [op |-> "none"]
    /\ ret = {}

CallBoundary ==
    /\ pc = "core"
    /\ call' = [op |-> "boundary", alive_set |-> alive_set]
    /\ ret' = boundary(alive_set)
    /\ pc' = "returned"
    /\ UNCHANGED <<GRID_WIDTH, GRID_HEIGHT, alive_set, boundary_set, pause, run,
                   clicks,
                   space_presses>>

\* evolution that updates its alive_set argument in place and returns it.
CallEvolution_in_place ==
    /\ pc = "core"
    /\ call' = [op |-> "evolution", alive_set |-> alive_set,
                 boundary_set |-> boundary_set]
    /\ ret' = evolution(alive_set, boundary_set)
    /\ alive_set' = ret'
    /\ pc' = "returned"
    /\ UNCHANGED <<GRID_WIDTH, GRID_HEIGHT, boundary_set, pause, run, clicks,
                   space_presses>>

CallEvolution ==
    /\ pc = "core"
    /\ call' = [op |-> "evolution", alive_set |-> alive_set,
                 boundary_set |-> boundary_set]
    /\ ret' = evolution(alive_set, boundary_set)
    /\ pc' = "returned"
    /\ UNCHANGED <<GRID_WIDTH, GRID_HEIGHT, alive_set, boundary_set, pause, run,
                   clicks,
                   space_presses>>

SetsNext ==
    \/ CallBoundary
    \/ CallEvolution

SpecSets == SetsInit /\ [][SetsNext]_vars

(***************************************************************************)
(* Named patterns: the blinker and the block, translated over the torus,   *)
(* run through the driver's tick.                                          *)
(***************************************************************************)
BlinkerH == { <<4, 5>>, <<5, 5>>, <<6, 5>> }
BlinkerV == { <<5, 4>>, <<5, 5>>, <<5, 6>> }
Block    == { <<5, 5>>, <<5, 6>>, <<6, 5>>, <<6, 6>> }

PatternInit ==
    /\ GRID_WIDTH \in 7 .. MaxPatDim
    /\ GRID_HEIGHT \in 7 .. MaxPatDim
    /\ \E pattern \in {"blinker", "block"}, d \in Grid :
         /\ call = [op |-> "tick", pattern |-> pattern, offset |-> d, ticks |-> 0]
         /\ alive_set = Translate(IF pattern = "blinker" THEN BlinkerH ELSE Block, d)
    /\ boundary_set = boundary(alive_set)
    /\ pause = FALSE
    /\ run = TRUE
    /\ pc = "loop"
    /\ clicks = 0
    /\ space_presses = 0
    /\ ret = {}

PatternTick ==
    /\ call.ticks < MaxTicks
    /\ Tick
    /\ call' = [call EXCEPT !.ticks = @ + 1]
    /\ UNCHANGED <<GRID_WIDTH, GRID_HEIGHT, pause, run, pc, clicks, ret,
                   space_presses>>

PatternNext == PatternTick

SpecPattern == PatternInit /\ [][PatternNext]_vars

(***************************************************************************)
(* The rules as the notebook states them (markdown, lines 12-14), on the   *)
(* full torus: the reference the sparse evolution is compared with.        *)
(***************************************************************************)
MooreOffsets == ({-1, 0, 1} \X {-1, 0, 1}) \ {<<0, 0>>}

\* The alive ones among the eight Moore neighbours of c, one per offset.
MooreCount(c, alive) ==
    Cardinality({ d \in MooreOffsets :
                    <<(c[1] + d[1]) % GRID_WIDTH, (c[2] + d[2]) % GRID_HEIGHT>> \in alive })

ConwayStep(alive) ==
    { c \in Grid : \/ c \in alive /\ MooreCount(c, alive) \in {2, 3}
                   \/ c \notin alive /\ MooreCount(c, alive) = 3 }

(***************************************************************************)
(* The claims.                                                             *)
(***************************************************************************)

\* C1: on every grid with W >= 3 and H >= 3 and every alive set A of in-range
\* cells, evolution(A, boundary(A)) is the Conway step of A on the full torus
\* (alive with 2 or 3 alive Moore neighbours survives, dead with exactly 3 is
\* born), and no dead cell outside boundary(A) has 3 alive Moore neighbours.
C1_EvolutionIsConwayStep ==
    (/\ pc = "returned" /\ call.op = "evolution"
     /\ GRID_WIDTH >= 3 /\ GRID_HEIGHT >= 3
     /\ boundary_set = boundary(alive_set))
    => /\ ret = ConwayStep(alive_set)
       /\ \A c \in Grid \ (alive_set \cup boundary_set) : MooreCount(c, alive_set) # 3

\* A call of evolution on a grid of at least 3 x 3 where a cell is born, a cell
\* dies, and a dead cell lies outside the boundary.
C1_Witness ==
    /\ pc = "returned" /\ call.op = "evolution"
    /\ GRID_WIDTH >= 3 /\ GRID_HEIGHT >= 3
    /\ boundary_set = boundary(alive_set)
    /\ ret \ alive_set # {}
    /\ alive_set \ ret # {}
    /\ Grid \ (alive_set \cup boundary_set) # {}

\* C2: whenever the driver loop calls evolution(alive_set, boundary_set),
\* boundary_set equals boundary(alive_set) of the current alive_set.
C2_BoundaryFreshAtTick ==
    [][IterTick => boundary_set = boundary(alive_set)]_vars

\* C3: in every state of the simulation after initialisation, boundary_set and
\* alive_set are disjoint.
C3_BoundaryDisjointFromAlive ==
    pc \in {"loop", "quit"} => boundary_set \cap alive_set = {}

\* C4: the next generation depends on the current alive set alone.  Every set A
\* of in-range cells is the alive set of a state right after start-up (selection
\* "1", boundary_set = boundary(A)), whose next tick yields
\* evolution(A, boundary(A)); so any other state of the loop with the same alive
\* set must yield that same set at its next tick.
C4_NextGenerationFromAliveAlone ==
    (pc = "loop" /\ alive_set \subseteq Grid)
    => evolution(alive_set, boundary_set) = evolution(alive_set, boundary(alive_set))

\* C5 (as claimed): for all cells c and all W, H >= 1, contour(c) has between 0
\* and 8 distinct cells, all in [0,W) x [0,H), and c is never one of them.
C5_ContourNeverHoldsCell ==
    (pc = "returned" /\ call.op = "contour")
    => /\ Cardinality(ret) \in 0 .. 8
       /\ ret \subseteq Grid
       /\ call.coord \notin ret

\* C5 (amended): for all cells c and all W, H >= 1, contour(c) has between 0 and
\* 8 distinct cells, all in [0,W) x [0,H); c is never one of them when W >= 2
\* and H >= 2.
C5_ContourAmended ==
    (pc = "returned" /\ call.op = "contour")
    => /\ Cardinality(ret) \in 0 .. 8
       /\ ret \subseteq Grid
       /\ (GRID_WIDTH >= 2 /\ GRID_HEIGHT >= 2) => call.coord \notin ret

\* contour of an in-range cell on a torus two cells wide: neighbours coincide
\* (five distinct ones are left) and the cell is not among them.
C5_Witness ==
    /\ pc = "returned" /\ call.op = "contour"
    /\ GRID_WIDTH = 2 /\ GRID_HEIGHT >= 3
    /\ call.coord \in Grid
    /\ Cardinality(ret) = 5

\* C6: in every state of the simulation after initialisation, alive_set and
\* boundary_set hold only cells of [0,W) x [0,H), also when the starting
\* configuration supplies coordinates outside that range.
C6_SetsInRange ==
    pc \in {"loop", "quit"} => alive_set \subseteq Grid /\ boundary_set \subseteq Grid

\* C7: boundary(A) is exactly the set of cells that are in contour(a) for at
\* least one a in A and are not in A; hence it is disjoint from A.
C7_BoundaryIsDeadNeighbours ==
    (pc = "returned" /\ call.op = "boundary")
    => /\ \A c \in Grid :
            c \in ret <=> (c \notin alive_set /\ \E a \in alive_set : c \in contour(a))
       /\ ret \subseteq Grid
       /\ ret \cap alive_set = {}

\* A call of boundary whose result is neither empty nor all the dead cells,
\* with an alive cell that has an alive neighbour (which the result leaves out).
C7_Witness ==
    /\ pc = "returned" /\ call.op = "boundary"
    /\ ret # {}
    /\ ret # Grid \ alive_set
    /\ \E a \in alive_set : contour(a) \cap alive_set # {}

\* C8: PBC maps every integer pair (x, y) to (x mod W, y mod H) with the
\* mathematical modulo on each axis: the result is in [0,W) x [0,H), differs
\* from the input by a multiple of W (resp. H), -1 maps to W-1 (resp. H-1),
\* and an in-range coordinate is returned unchanged.
C8_PBCIsModulo ==
    (pc = "returned" /\ call.op = "PBC")
    => LET x == call.coord_0
           y == call.coord_1
           K == 2 * MaxRaw + 1
       IN  /\ ret[1] \in 0 .. GRID_WIDTH - 1
           /\ ret[2] \in 0 .. GRID_HEIGHT - 1
           /\ \E k \in -K .. K : x = ret[1] + k * GRID_WIDTH
           /\ \E k \in -K .. K : y = ret[2] + k * GRID_HEIGHT
           /\ x = -1 => ret[1] = GRID_WIDTH - 1
           /\ y = -1 => ret[2] = GRID_HEIGHT - 1
           /\ x \in 0 .. GRID_WIDTH - 1 => ret[1] = x
           /\ y \in 0 .. GRID_HEIGHT - 1 => ret[2] = y

\* PBC applied to x = -1 and a y beyond the last row, on a grid wider than 1.
C8_Witness ==
    /\ pc = "returned" /\ call.op = "PBC"
    /\ GRID_WIDTH >= 2
    /\ call.coord_0 = -1
    /\ call.coord_1 >= 2 * GRID_HEIGHT
    /\ ret[1] = GRID_WIDTH - 1

\* C9: from the horizontal blinker {(4,5),(5,5),(6,5)} on a grid of at least
\* 7 x 7, one tick yields the vertical triplet {(5,4),(5,5),(5,6)}, the next
\* tick the horizontal one again, and so on: the alive set is the horizontal
\* triplet after every even number of ticks and the vertical after every odd.
C9_BlinkerPeriodTwo ==
    (pc = "loop" /\ call.op = "tick" /\ call.pattern = "blinker" /\ call.offset = <<0, 0>>)
    => /\ alive_set = (IF call.ticks % 2 = 0 THEN BlinkerH ELSE BlinkerV)
       /\ boundary_set = boundary(alive_set)

\* The blinker is back to the horizontal triplet after two ticks.
C9_Witness ==
    /\ pc = "loop" /\ call.op = "tick" /\ call.pattern = "blinker"
    /\ call.offset = <<0, 0>>
    /\ call.ticks = 2
    /\ alive_set = BlinkerH

\* C10: the 2 x 2 block {(5,5),(5,6),(6,5),(6,6)} and every toroidal translate
\* of it, on a grid of at least 7 x 7, is a fixed point of
\* evolution(A, boundary(A)): every block cell has exactly 3 alive neighbours
\* and every boundary cell at most 2.
C10_BlockIsStable ==
    (pc = "loop" /\ call.op = "tick" /\ call.pattern = "block")
    => /\ alive_set = Translate(Block, call.offset)
       /\ evolution(alive_set, boundary(alive_set)) = alive_set
       /\ \A c \in alive_set : contour_alive_sum(c, alive_set) = 3
       /\ \A b \in boundary(alive_set) : contour_alive_sum(b, alive_set) <= 2

\* A block translated across both edges of the torus, after a tick.
C10_Witness ==
    /\ pc = "loop" /\ call.op = "tick" /\ call.pattern = "block"
    /\ call.ticks >= 1
    /\ <<0, 0>> \in alive_set
    /\ <<GRID_WIDTH - 1, GRID_HEIGHT - 1>> \in alive_set
    /\ Cardinality(alive_set) = 4

\* C11: the empty alive set is a fixed point on every grid: evolution of the
\* empty alive set is empty, with the empty boundary set and with any other
\* boundary set handed to it, and boundary of the empty alive set is empty; so
\* a tick from the empty alive set leaves it empty.
C11_EmptyIsFixedPoint ==
    (pc = "returned" /\ call.alive_set = {})
    => /\ call.op = "evolution" => ret = {}
       /\ call.op = "boundary" => ret = {}
       /\ boundary(evolution({}, boundary_set)) = {}

\* evolution applied to the empty alive set and the empty boundary set.
C11_Witness ==
    /\ pc = "returned" /\ call.op = "evolution"
    /\ call.alive_set = {} /\ call.boundary_set = {}
    /\ ret = {}

\* C12: a single alive cell dies and nothing is born: for every one-cell alive
\* set A = {c}, evolution(A, boundary(A)) is empty (on the 20 x 20 torus, with
\* c = (5,5), among the others).
C12_SingleCellDies ==
    (/\ pc = "returned" /\ call.op = "evolution"
     /\ Cardinality(call.alive_set) = 1
     /\ call.boundary_set = boundary(call.alive_set))
    => ret = {}

\* evolution applied to {(5,5)} and its boundary on the 20 x 20 torus.
C12_Witness ==
    /\ pc = "returned" /\ call.op = "evolution"
    /\ GRID_WIDTH = 20 /\ GRID_HEIGHT = 20
    /\ call.alive_set = {<<5, 5>>}
    /\ call.boundary_set = boundary({<<5, 5>>})
    /\ Cardinality(call.boundary_set) = 8
    /\ ret = {}

\* C13: contour returns exactly 8 distinct cells for every cell whenever
\* W >= 3 and H >= 3.
C13_ContourHasEightCells ==
    (pc = "returned" /\ call.op = "contour" /\ GRID_WIDTH >= 3 /\ GRID_HEIGHT >= 3)
    => Cardinality(ret) = 8

\* contour of a cell on the edge of a 3-wide torus: 8 cells, wrapped.
C13_Witness ==
    /\ pc = "returned" /\ call.op = "contour"
    /\ GRID_WIDTH = 3 /\ GRID_HEIGHT >= 3
    /\ call.coord = <<0, 0>>
    /\ Cardinality(ret) = 8
    /\ <<2, 0>> \in ret

\* C14: on every W x H grid, the cell (W-1, H-1) is a member of contour((0,0)).
C14_CornerWrapsDiagonally ==
    (pc = "returned" /\ call.op = "contour" /\ call.coord = <<0, 0>>)
    => <<GRID_WIDTH - 1, GRID_HEIGHT - 1>> \in ret

\* contour((0,0)) on a torus of unequal sides, both at least 3.
C14_Witness ==
    /\ pc = "returned" /\ call.op = "contour" /\ call.coord = <<0, 0>>
    /\ GRID_WIDTH >= 3 /\ GRID_HEIGHT > GRID_WIDTH
    /\ <<GRID_WIDTH - 1, GRID_HEIGHT - 1>> \in ret

\* C15: boundary returns the empty set when the alive set is empty and when
\* it is the whole grid, on every grid.
C15_BoundaryOfEmptyAndFull ==
    (pc = "returned" /\ call.op = "boundary" /\ call.alive_set \in {{}, Grid})
    => ret = {}

\* boundary applied to the whole of a grid of at least 3 x 3.
C15_Witness ==
    /\ pc = "returned" /\ call.op = "boundary"
    /\ GRID_WIDTH >= 3 /\ GRID_HEIGHT >= 3
    /\ call.alive_set = Grid
    /\ ret = {}

C18_SupersetBoundarySameResult ==
    (/\ pc = "returned" /\ call.op = "evolution"
     /\ call.alive_set \subseteq Grid /\ call.boundary_set \subseteq Grid
     /\ boundary(call.alive_set) \subseteq call.boundary_set)
    => ret = evolution(call.alive_set, boundary(call.alive_set))

\* evolution applied with a boundary set that holds, beyond the boundary, an
\* alive cell and a dead cell with no alive neighbour; a cell is born and a
\* cell survives.
C18_Witness ==
    /\ pc = "returned" /\ call.op = "evolution"
    /\ boundary(call.alive_set) \subseteq call.boundary_set
    /\ call.boundary_set \cap call.alive_set # {}
    /\ (call.boundary_set \ call.alive_set) \ boundary(call.alive_set) # {}
    /\ ret \ call.alive_set # {}
    /\ ret \cap call.alive_set # {}

\* C17: a menu selection other than "1", "2" or "3" ends the program with a
\* message of its own, never with an exception that escapes main
\* (pc = "crashed": the UnboundLocalError raised at line 164 when alive_set is
\* read to be passed to boundary).
C17_InvalidSelectionReported ==
    pc # "crashed"

\* C19: the driver starts paused and performs no evolution step while paused.
\* The loop is entered with pause set; pause is set exactly when the number of
\* SPACE presses so far is even; in a step taken with pause set boundary_set
\* does not change and alive_set changes only by the toggle of one cell; and a
\* step that changes boundary_set, or alive_set other than by a mouse click, is
\* taken with pause not set after an odd number of SPACE presses and is one
\* evolution followed by one boundary recomputation.
C19_NoEvolutionWhilePaused ==
    [][ /\ (pc = "menu" /\ pc' = "loop") => (pause' /\ space_presses' = 0)
        /\ pc' = "loop" => (pause' <=> space_presses' = 0)
        /\ (pc = "loop" /\ pause)
           => /\ boundary_set' = boundary_set
              /\ alive_set' # alive_set
                 => \E c \in Grid :
                      alive_set' = IF c \in alive_set THEN alive_set \ {c}
                                   ELSE alive_set \cup {c}
        /\ (/\ pc = "loop"
            /\ \/ boundary_set' # boundary_set
               \/ alive_set' # alive_set /\ clicks' = clicks)
           => /\ ~pause
              /\ space_presses = 1
              /\ alive_set' = evolution(alive_set, boundary_set)
              /\ boundary_set' = boundary(alive_set')
      ]_vars

\* The loop, not paused after an odd number of SPACE presses and no click, with
\* an alive set that only ticks can have produced: it holds cells outside the
\* grid, which only a preset supplies, and is not a preset.
C19_Witness ==
    /\ pc = "loop" /\ ~pause /\ space_presses = 1 /\ clicks = 0
    /\ ~(alive_set \subseteq Grid)
    /\ alive_set \notin {pulsars, gosper_glider_gun}

=============================================================================
